---------------------------- MODULE Spec2Model ----------------------------
(***************************************************************************)
(* A model of the synchronization core of the pipeline-parallel runtime:   *)
(*   - runtime/threadsafe_queue.py : Queue, the one-producer/one-consumer  *)
(*     handoff queue built on threading.Condition;                         *)
(*   - optim/optimizer.py : OptimizerWithWeightStashing, the versioned     *)
(*     weight-stashing wrapper around a torch optimizer.                   *)
(* The two parts share no state.  QSpec/QFairSpec run the queue, Spec runs *)
(* the optimizer without mixed precision, MixedSpec the optimizer with    *)
(* mixed precision, FailSpec an optimizer whose update algorithm may      *)
(* raise.                                                                  *)
(***************************************************************************)
EXTENDS Integers, Sequences, FiniteSets, TLC

VARIABLES
    \* ---- runtime/threadsafe_queue.py : Queue ----
    queue,        \* self.queue, the deque of payloads
    cv_owner,     \* the thread holding self.cv's lock, or "none"
    cv_waiters,   \* the threads blocked inside self.cv.wait()
    pc,           \* the position of the producer and of the consumer
    tensor,       \* remove()'s local `tensor` (meaningful after popleft)
    woken,        \* history: cv.wait() has returned during this remove()
    added,        \* history: the payloads passed to add(), in call order
    removed,      \* history: the payloads returned by remove(), in order
    \* ---- optim/optimizer.py : OptimizerWithWeightStashing ----
    ctor_args,    \* history: the num_versions and macrobatch __init__ was given
    num_versions,      \* self.num_versions
    update_interval,   \* self.update_interval
    save_dir,          \* self.save_dir: "None" or "dir"
    base_optimizer,    \* self.base_optimizer: "None" or "optim"
    model_parameters,  \* self.model_parameters: "None" or "fp16"
    loss_scale,        \* self.loss_scale
    opt_queue,         \* self.queue, the deque(maxlen=num_versions) of snapshots
    dicts,             \* the state_dict lists the optimizer holds, by identity
    files,             \* the version_<k>.pth.tar files of save_dir, by <k>
    buffered_state_dicts,  \* self.buffered_state_dicts (the identity of a list)
    live,              \* the modules' state_dict(): the live value of each key
    latest_version,    \* self.latest_version.version
    current_version,   \* self.current_version.version
    batch_counter,     \* self.batch_counter
    grad,              \* p.grad of the parameters of each parameter group
    model_grad,        \* with fp16, the .grad of the model's own parameters
    updates,      \* history: the calls of base_optimizer.step() so far
    hist,         \* history: hist[v+1] is the live weight right after update v
    last_call,    \* history: the method called last
    ret,          \* history: what the last step() returned
    zg_run,       \* history: the zero_grad() calls in a row just made
    zg_clears,    \* history: how many of them cleared the gradients
    trace,        \* history: what the last step() call did, in order
    raises        \* history: the step() calls that ended in an exception

qvars == <<queue, cv_owner, cv_waiters, pc, tensor, woken, added, removed>>

ovars == <<ctor_args, num_versions, update_interval, save_dir, base_optimizer,
           model_parameters, loss_scale,
           opt_queue, dicts, files, buffered_state_dicts, live, latest_version,
           current_version, batch_counter, grad, model_grad, updates, hist,
           last_call, ret, zg_run, zg_clears, trace, raises>>

vars == <<qvars, ovars>>

-----------------------------------------------------------------------------
(***************************************************************************)
(* Bounds of the model.                                                    *)
(***************************************************************************)
\* the number of add() calls the producer issues
MaxAdds == 3

\* the payloads are drawn from 0..MaxPayload
MaxPayload == 1

Payloads == 0..MaxPayload

\* __init__ is given a num_versions in 1..MaxVersions
MaxVersions == 3

\* the number of step() calls
MaxSteps == 4

\* with mixed precision loss_scale is drawn from 1..MaxLossScale
MaxLossScale == 2

\* the number of step() calls the update algorithm lets end in an exception
MaxRaises == 1

\* the running statistic and the mask each change up to MaxStat times
MaxStat == 1

\* backward passes accumulate a gradient of up to MaxGrad units
MaxGrad == 2

\* the parameter groups of the base optimizer, when it has parameters
NumGroups == 2

\* the zero_grad() calls made in a row
MaxZeroGrads == 2

-----------------------------------------------------------------------------
(***************************************************************************)
(* runtime/threadsafe_queue.py                                             *)
(***************************************************************************)
Threads == {"producer", "consumer"}

\* deque.append(tensor): at the right end
AppendRight(q, t) == Append(q, t)

\* fault variant: deque.pop() in place of deque.popleft(): the newest payload
PopRight(q) == [val |-> q[Len(q)], rest |-> SubSeq(q, 1, Len(q) - 1)]

\* deque.popleft(): the value taken and the deque left
Popleft(q) == [val |-> Head(q), rest |-> Tail(q)]

\* the loop condition of remove(): len(self.queue) == 0
QueueEmpty(q) == Len(q) = 0

\* fault variant: add() without its notify(): nobody is woken
NotifyNobody(w) == w

\* cv.notify(): wakes one of the threads waiting, when there is one; the
\* result is the set of threads still waiting
Notify(w) == IF w = {} THEN {} ELSE w \ {CHOOSE th \in w : TRUE}

\* fault variant: `if` in place of `while`: no second test after cv.wait()
AfterWaitNoTest == "popleft"

\* where a thread returning from cv.wait() continues: `while` tests again
AfterWait == "test"

\* fault variant: a wait that sleeps with the lock held
OwnerKeptDuringWait == "consumer"

\* the lock's owner once cv.wait() has parked the caller: wait() releases it
OwnerDuringWait == "none"

QueueInit ==
    /\ queue = <<>>
    /\ cv_owner = "none"
    /\ cv_waiters = {}
    /\ pc = [th \in Threads |-> "idle"]
    /\ tensor = 0
    /\ woken = FALSE
    /\ added = <<>>
    /\ removed = <<>>

\* ---- add(tensor), the producer ----
AddCall(t) ==
    /\ pc["producer"] = "idle"
    /\ Len(added) < MaxAdds
    /\ added' = Append(added, t)
    /\ pc' = [pc EXCEPT !["producer"] = "acquire"]
    /\ UNCHANGED <<queue, cv_owner, cv_waiters, tensor, woken, removed, ovars>>

\* self.cv.acquire()
AddAcquire ==
    /\ pc["producer"] = "acquire"
    /\ cv_owner = "none"
    /\ cv_owner' = "producer"
    /\ pc' = [pc EXCEPT !["producer"] = "append"]
    /\ UNCHANGED <<queue, cv_waiters, tensor, woken, added, removed, ovars>>

\* self.queue.append(tensor)
AddAppend ==
    /\ pc["producer"] = "append"
    /\ queue' = AppendRight(queue, added[Len(added)])
    /\ pc' = [pc EXCEPT !["producer"] = "notify"]
    /\ UNCHANGED <<cv_owner, cv_waiters, tensor, woken, added, removed, ovars>>

\* self.cv.notify(): a woken thread still has to take the lock again
AddNotify ==
    /\ pc["producer"] = "notify"
    /\ cv_waiters' = Notify(cv_waiters)
    /\ pc' = [th \in Threads |->
                IF th = "producer" THEN "release"
                ELSE IF th \in cv_waiters \ cv_waiters' THEN "wakeup"
                ELSE pc[th]]
    /\ UNCHANGED <<queue, cv_owner, tensor, woken, added, removed, ovars>>

\* self.cv.release(), and add() returns
AddRelease ==
    /\ pc["producer"] = "release"
    /\ cv_owner' = "none"
    /\ pc' = [pc EXCEPT !["producer"] = "idle"]
    /\ UNCHANGED <<queue, cv_waiters, tensor, woken, added, removed, ovars>>

\* ---- remove(), the consumer ----
RemoveCall ==
    /\ pc["consumer"] = "idle"
    /\ pc' = [pc EXCEPT !["consumer"] = "acquire"]
    /\ woken' = FALSE
    /\ UNCHANGED <<queue, cv_owner, cv_waiters, tensor, added, removed, ovars>>

\* self.cv.acquire()
RemoveAcquire ==
    /\ pc["consumer"] = "acquire"
    /\ cv_owner = "none"
    /\ cv_owner' = "consumer"
    /\ pc' = [pc EXCEPT !["consumer"] = "test"]
    /\ UNCHANGED <<queue, cv_waiters, tensor, woken, added, removed, ovars>>

\* while len(self.queue) == 0:
RemoveTest ==
    /\ pc["consumer"] = "test"
    /\ pc' = [pc EXCEPT !["consumer"] =
                IF QueueEmpty(queue) THEN "wait" ELSE "popleft"]
    /\ UNCHANGED <<queue, cv_owner, cv_waiters, tensor, woken, added,
                   removed, ovars>>

\* self.cv.wait(): the caller joins the waiters and the lock is released, in
\* one step with respect to every thread that needs the lock
RemoveWait ==
    /\ pc["consumer"] = "wait"
    /\ cv_waiters' = cv_waiters \cup {"consumer"}
    /\ cv_owner' = OwnerDuringWait
    /\ pc' = [pc EXCEPT !["consumer"] = "waiting"]
    /\ UNCHANGED <<queue, tensor, woken, added, removed, ovars>>

\* cv.wait() may return without a notify() (a condition variable's contract,
\* the reason remove() tests in a loop)
SpuriousWakeup ==
    /\ pc["consumer"] = "waiting"
    /\ "consumer" \in cv_waiters
    /\ cv_waiters' = cv_waiters \ {"consumer"}
    /\ pc' = [pc EXCEPT !["consumer"] = "wakeup"]
    /\ UNCHANGED <<queue, cv_owner, tensor, woken, added, removed, ovars>>

\* cv.wait() returning: the lock is taken again before wait() returns
RemoveReacquire ==
    /\ pc["consumer"] = "wakeup"
    /\ cv_owner = "none"
    /\ cv_owner' = "consumer"
    /\ pc' = [pc EXCEPT !["consumer"] = AfterWait]
    /\ woken' = TRUE
    /\ UNCHANGED <<queue, cv_waiters, tensor, added, removed, ovars>>

\* tensor = self.queue.popleft(); popleft() of an empty deque raises
\* IndexError, which leaves remove() without a value
RemovePopleft ==
    /\ pc["consumer"] = "popleft"
    /\ IF Len(queue) = 0
       THEN /\ pc' = [pc EXCEPT !["consumer"] = "raised"]
            /\ UNCHANGED <<queue, tensor>>
       ELSE /\ tensor' = Popleft(queue).val
            /\ queue' = Popleft(queue).rest
            /\ pc' = [pc EXCEPT !["consumer"] = "release"]
    /\ UNCHANGED <<cv_owner, cv_waiters, woken, added, removed, ovars>>

\* self.cv.release()
RemoveRelease ==
    /\ pc["consumer"] = "release"
    /\ cv_owner' = "none"
    /\ pc' = [pc EXCEPT !["consumer"] = "return"]
    /\ UNCHANGED <<queue, cv_waiters, tensor, woken, added, removed, ovars>>

\* return tensor
RemoveReturn ==
    /\ pc["consumer"] = "return"
    /\ removed' = Append(removed, tensor)
    /\ pc' = [pc EXCEPT !["consumer"] = "idle"]
    /\ UNCHANGED <<queue, cv_owner, cv_waiters, tensor, woken, added, ovars>>

\* the steps of a producer inside add()
ProducerStep == AddAcquire \/ AddAppend \/ AddNotify \/ AddRelease

\* the steps of a consumer inside remove()
ConsumerStep ==
    \/ RemoveAcquire \/ RemoveTest \/ RemoveWait \/ RemoveReacquire
    \/ RemovePopleft \/ RemoveRelease \/ RemoveReturn

-----------------------------------------------------------------------------
(***************************************************************************)
(* optim/optimizer.py                                                      *)
(*                                                                         *)
(* One module is managed.  Its state_dict() has a parameter ("weight"), a  *)
(* running statistic ("running_mean") and a mask ("mask").  A tensor held  *)
(* by a stashed state_dict is either storage of its own with a value, or   *)
(* the very tensor of the live module (state_dict() hands out the module's *)
(* tensors, and only clone() and torch.load() make new ones).  The values  *)
(* base_optimizer.step() writes are not computed: each update writes a     *)
(* value no earlier update wrote, the number of the update.  clip_grad and *)
(* model_parameters are None, stash_to_cpu is False, verbose_freq is 0.    *)
(***************************************************************************)
Keys == {"weight", "running_mean", "mask"}

\* "running_" in key
IsRunning(key) == key = "running_mean"

\* "mask" in key
IsMask(key) == key = "mask"

\* a tensor with storage of its own
Own(v) == [alias |-> FALSE, val |-> v]

\* the live module's tensor of the same key
Alias == [alias |-> TRUE, val |-> 0]

\* the value read through a reference, lv being the live values
Deref(r, lv, key) == IF r.alias THEN lv[key] ELSE r.val

\* state_dict[key].clone()
Clone(lv, key) == Own(lv[key])

\* fault variant: buffered[key] = state_dict[key] in place of copy_(): the entry
\* becomes the live tensor
CopyRebind(r, lv, key) == Alias

\* buffered[key].copy_(state_dict[key]): written in place, into the storage
\* the buffered entry has
CopyInto(r, lv, key) == IF r.alias THEN r ELSE Own(lv[key])

\* get_params(clone=True), the state_dict of the module
GetParamsClone(lv) == [key \in Keys |-> Clone(lv, key)]

\* get_params(clone=False), what it leaves in buffered_state_dicts
GetParamsInto(sd, lv) ==
    [key \in Keys |->
        IF IsRunning(key) THEN sd[key]
        ELSE IF IsMask(key) THEN Clone(lv, key)
        ELSE CopyInto(sd[key], lv, key)]

\* fault variant: get_params() returning current_version for latest_version
GetParamsVersionCurrent(latest, current) == current

\* the version get_params() returns beside the state_dicts
GetParamsVersion(latest, current) == latest

\* fault variant: set_params() without the rebinding of lines 139-140
SetParamsNoRebind(sd) == sd

\* set_params(): the running_ and mask entries of the state_dict handed in
\* are rebound to the live module's tensors
SetParamsRebind(sd) ==
    [key \in Keys |-> IF IsRunning(key) \/ IsMask(key) THEN Alias ELSE sd[key]]

\* fault variant: load_state_dict() adding the snapshot to the parameter
\* (add_ in place of copy_)
LoadStateDictAdd(sd, lv) ==
    [key \in Keys |-> IF sd[key].alias THEN lv[key] ELSE lv[key] + sd[key].val]

\* module.load_state_dict(state_dict): the live values afterwards
LoadStateDict(sd, lv) == [key \in Keys |-> Deref(sd[key], lv, key)]

\* torch.save(): the values are written out
TorchSave(sd, lv) == [key \in Keys |-> Deref(sd[key], lv, key)]

\* torch.load(): new tensors with the values of the file
TorchLoad(blob) == [key \in Keys |-> Own(blob[key])]

\* fault variant: a deque without maxlen: nothing is ever dropped
DequeAppendUnbounded(q, x, n) == Append(q, x)

\* deque(maxlen=n).append(x): a full deque drops its leftmost entry
DequeAppend(q, x, n) == IF Len(q) >= n THEN Append(Tail(q), x) ELSE Append(q, x)

\* fault variant: the file named after the version itself
FileNameVersion(version, n) == version

\* f"version_{version.version % self.num_versions}.pth.tar"
FileName(version, n) == version % n

\* a file written (again)
WriteFile(fs, k, blob) ==
    [f \in DOMAIN fs \cup {k} |-> IF f = k THEN blob ELSE fs[f]]

\* append_to_queue((state_dicts, version)), state_dicts being dicts[d]: the
\* deque and the files afterwards
AppendToQueue(q, fs, ds, lv, d, version, n, dir) ==
    IF dir # "None"
    THEN [queue |-> DequeAppend(q, [fname |-> FileName(version, n)], n),
          files |-> WriteFile(fs, FileName(version, n),
                              [sd |-> TorchSave(ds[d], lv), version |-> version])]
    ELSE [queue |-> DequeAppend(q, [sd |-> d, version |-> version], n),
          files |-> fs]

\* get_from_queue(index)[0], as the content of the state_dict; index counts
\* from 1 here, Python's 0 is 1 and Python's -1 is Len(q)
QueueStateDict(q, fs, ds, index, dir) ==
    IF dir # "None" THEN TorchLoad(fs[q[index].fname].sd) ELSE ds[q[index].sd]

\* get_from_queue(index)[1]
QueueVersion(q, fs, index, dir) ==
    IF dir # "None" THEN fs[q[index].fname].version ELSE q[index].version

\* fault variant: step() updating on the first call of a window
ReadyAtWindowStart(bc, interval) == bc % interval = 0

\* the condition under which step() updates: the last call of a window
ReadyToStep(bc, interval) == bc % interval = interval - 1

\* fault variant: zero_grad() clearing on every call
WindowStartAlways(bc, interval) == TRUE

\* the condition under which zero_grad() clears: the first call of a window
WindowStart(bc, interval) == bc % interval = 0

\* fault variant: the guard of the loads as num_versions >= 1
StashingAlways(n) == n >= 1

\* the guard of load_old_params() and load_new_params()
Stashing(n) == n > 1

\* the parameter groups of base_optimizer; there is no base optimizer, and
\* so no parameter, when master_parameters is empty
ParamGroups(base) == IF base = "None" THEN {} ELSE 1..NumGroups

RECURSIVE GCD(_, _)
GCD(a, b) == IF b = 0 THEN a ELSE GCD(b, a % b)

\* a gradient is a fraction in lowest terms
Frac(num, den) == [num |-> num \div GCD(num, den), den |-> den \div GCD(num, den)]

\* the gradient after one more backward pass: one unit is accumulated
GradAccumulate(g) == Frac(g.num + g.den, g.den)

\* p.grad.div_(self.update_interval)
GradDiv(g, interval) == Frac(g.num, g.den * interval)

\* a cleared gradient
GradZero == [num |-> 0, den |-> 1]

\* initialize_queue(): the first i appends, each of a clone of the live state
RECURSIVE InitializeQueue(_, _, _, _)
InitializeQueue(i, lv, n, dir) ==
    IF i = 0
    THEN [queue |-> <<>>, files |-> <<>>, dicts |-> <<>>]
    ELSE LET before == InitializeQueue(i - 1, lv, n, dir)
             ds == [d \in DOMAIN before.dicts \cup {i} |->
                        IF d = i THEN GetParamsClone(lv) ELSE before.dicts[d]]
             app == AppendToQueue(before.queue, before.files, ds, lv, i, 0, n, dir)
         IN  [queue |-> app.queue, files |-> app.files, dicts |-> ds]

\* the number of versions __init__ keeps
EffectiveVersions(n, macro) == IF macro THEN (IF n < 2 THEN n ELSE 2) ELSE n

\* fault variant: update_interval taken from the requested num_versions
EffectiveIntervalRequested(n, macro) == IF macro THEN n ELSE 1

\* the update interval __init__ sets
EffectiveInterval(n, macro) == IF macro THEN EffectiveVersions(n, macro) ELSE 1

InitialLive == [key \in Keys |-> 0]

\* __init__(..., num_versions=n, macrobatch=macro, save_dir=dir,
\* model_parameters=mp, loss_scale=ls, ...) with an empty master_parameters
\* when base is "None"
Construct(n, macro, dir, base, mp, ls) ==
    LET nv == EffectiveVersions(n, macro)
        iq == InitializeQueue(nv, InitialLive, nv, dir)
    IN  /\ ctor_args = [num_versions |-> n, macrobatch |-> macro]
        /\ num_versions = nv
        /\ update_interval = EffectiveInterval(n, macro)
        /\ save_dir = dir
        /\ base_optimizer = base
        /\ model_parameters = mp
        /\ loss_scale = ls
        /\ opt_queue = iq.queue
        /\ files = iq.files
        \* in memory only the lists in the deque are kept; with save_dir the
        \* clones are dropped and list 0 is the one loaded for the buffer
        /\ dicts = IF dir # "None"
                   THEN [d \in {0} |-> QueueStateDict(iq.queue, iq.files, iq.dicts, 1, dir)]
                   ELSE iq.dicts
        /\ buffered_state_dicts = IF dir # "None" THEN 0 ELSE iq.queue[1].sd
        /\ live = InitialLive
        /\ latest_version = 0
        /\ current_version = 0
        /\ batch_counter = 0
        /\ grad = [g \in ParamGroups(base) |-> GradZero]
        /\ model_grad = [g \in (IF mp # "None" THEN ParamGroups(base) ELSE {}) |->
                            GradZero]
        /\ updates = 0
        /\ hist = <<InitialLive["weight"]>>
        /\ last_call = "__init__"
        /\ ret = "None"
        /\ zg_run = 0
        /\ zg_clears = 0
        /\ trace = <<>>
        /\ raises = 0

\* an optimizer without mixed precision (model_parameters is None; the
\* loss scale is not read then)
OptInit ==
    \E n \in 1..MaxVersions, macro \in BOOLEAN,
       dir \in {"None", "dir"}, base \in {"None", "optim"} :
        Construct(n, macro, dir, base, "None", 1)

\* an optimizer with mixed precision
MixedOptInit ==
    \E n \in 1..MaxVersions, macro \in BOOLEAN,
       dir \in {"None", "dir"}, base \in {"None", "optim"},
       ls \in 1..MaxLossScale :
        Construct(n, macro, dir, base, "fp16", ls)

\* an optimizer with parameters, with or without mixed precision (and then
\* with no scaling of the loss)
FailOptInit ==
    \E n \in 1..MaxVersions, macro \in BOOLEAN,
       dir \in {"None", "dir"}, mp \in {"None", "fp16"} :
        Construct(n, macro, dir, "optim", mp, 1)

\* what no method changes
config == <<ctor_args, num_versions, update_interval, save_dir, base_optimizer,
            model_parameters, loss_scale>>

\* ---- step() ----
\* fault variant: step() handing back a loss with or without a base optimizer
StepResultLoss(base) == "loss"

\* loss = self.base_optimizer.step() if self.base_optimizer is not None
\* else None, as returned by step()
StepResult(base) == IF base # "None" THEN "loss" ELSE "None"

\* fp16_utils.model_grads_to_master_grads(model_parameters,
\* master_parameters): every master gradient becomes a copy of the gradient
\* of its model parameter
ModelGradsToMasterGrads(mg, g) == [k \in DOMAIN g |-> mg[k]]

\* fp16_utils.master_params_to_model_params(model_parameters,
\* master_parameters): the model's parameters become copies of the master
\* parameters, whose weight is the one update number u has made
MasterParamsToModelParams(lv, base, u) ==
    IF base # "None" THEN [lv EXCEPT !["weight"] = u] ELSE lv

\* fault variant: master_params_to_model_params() called only after the
\* ring has been rotated
StepEventsHookLast(mp, ls, base, n) ==
    (IF mp # "None" THEN <<"model_grads_to_master_grads">> ELSE <<>>)
    \o (IF mp # "None" /\ ls # 1 THEN <<"loss_scale">> ELSE <<>>)
    \o <<"div_">>
    \o (IF base # "None" THEN <<"base_optimizer.step">> ELSE <<>>)
    \o <<"latest_version.incr">>
    \o (IF n > 1 THEN <<"append_to_queue">> ELSE <<>>)
    \o (IF mp # "None" THEN <<"master_params_to_model_params">> ELSE <<>>)

\* what a step() call on the update path does, in the order of lines 181-207
StepEvents(mp, ls, base, n) ==
    (IF mp # "None" THEN <<"model_grads_to_master_grads">> ELSE <<>>)
    \o (IF mp # "None" /\ ls # 1 THEN <<"loss_scale">> ELSE <<>>)
    \o <<"div_">>
    \o (IF base # "None" THEN <<"base_optimizer.step">> ELSE <<>>)
    \o (IF mp # "None" THEN <<"master_params_to_model_params">> ELSE <<>>)
    \o <<"latest_version.incr">>
    \o (IF n > 1 THEN <<"append_to_queue">> ELSE <<>>)

\* the events of StepEvents up to the call of base_optimizer.step()
RECURSIVE UpToBaseStep(_)
UpToBaseStep(es) ==
    IF es = <<>> THEN <<>>
    ELSE IF Head(es) = "base_optimizer.step" THEN <<Head(es)>>
    ELSE <<Head(es)>> \o UpToBaseStep(Tail(es))

\* what step() reads and writes
StepState ==
    [grad |-> grad, live |-> live, updates |-> updates,
     latest_version |-> latest_version, queue |-> opt_queue, files |-> files,
     dicts |-> dicts, buffered_state_dicts |-> buffered_state_dicts]

\* fault variant: a step() that follows a failed one leaves out the
\* averaging the failed one has made
DivGradsOnce(g, interval) ==
    IF last_call = "step_raised" THEN g
    ELSE [k \in DOMAIN g |-> IF k = 1 THEN GradDiv(g[k], interval) ELSE g[k]]

\* for p in self.param_groups[0]['params']: p.grad.div_(self.update_interval)
DivGrads(g, interval) ==
    [k \in DOMAIN g |-> IF k = 1 THEN GradDiv(g[k], interval) ELSE g[k]]

\* for parameter in self.master_parameters:
\*     parameter.grad.data = parameter.grad.data / self.loss_scale
UnscaleGrads(g, ls) == [k \in DOMAIN g |-> GradDiv(g[k], ls)]

\* self.buffered_state_dicts = self.get_from_queue(0)[0]
\* self.append_to_queue(self.get_params(clone=False))
Rotate(st) ==
    LET b == IF save_dir # "None" THEN 0 ELSE st.queue[1].sd
        sd == GetParamsInto(
                 QueueStateDict(st.queue, st.files, st.dicts, 1, save_dir),
                 st.live)
        ds == [st.dicts EXCEPT ![b] = sd]
        app == AppendToQueue(st.queue, st.files, ds, st.live, b,
                   GetParamsVersion(st.latest_version, current_version),
                   num_versions, save_dir)
    IN  [st EXCEPT !.buffered_state_dicts = b,
                   !.dicts = ds,
                   !.queue = app.queue,
                   !.files = app.files]

\* one statement of the update path of step(); base_optimizer.step() makes
\* update number updates + 1, and writes its weight into the parameters
\* it was given: those of the module, or with fp16 the master copies
StepEvent(e, st) ==
    CASE e = "model_grads_to_master_grads" ->
            [st EXCEPT !.grad = ModelGradsToMasterGrads(model_grad, st.grad)]
      [] e = "loss_scale" ->
            [st EXCEPT !.grad = UnscaleGrads(st.grad, loss_scale)]
      [] e = "div_" ->
            [st EXCEPT !.grad = DivGrads(st.grad, update_interval)]
      [] e = "base_optimizer.step" ->
            [st EXCEPT !.updates = st.updates + 1,
                       !.live = IF model_parameters # "None" THEN st.live
                                ELSE [st.live EXCEPT !["weight"] = st.updates + 1]]
      [] e = "master_params_to_model_params" ->
            [st EXCEPT !.live = MasterParamsToModelParams(
                                    st.live, base_optimizer, st.updates)]
      [] e = "latest_version.incr" ->
            [st EXCEPT !.latest_version = st.latest_version + 1]
      [] e = "append_to_queue" -> Rotate(st)

\* the statements of es, one after the other
RECURSIVE RunEvents(_, _)
RunEvents(es, st) ==
    IF es = <<>> THEN st ELSE RunEvents(Tail(es), StepEvent(Head(es), st))

\* step() in a call that only counts (lines 174-176)
StepAccumulate ==
    /\ batch_counter < MaxSteps
    /\ ~ReadyToStep(batch_counter, update_interval)
    /\ batch_counter' = batch_counter + 1
    /\ ret' = "None"
    /\ trace' = <<>>
    /\ last_call' = "step"
    /\ zg_run' = 0
    /\ zg_clears' = 0
    /\ UNCHANGED <<config, opt_queue, dicts, files, buffered_state_dicts, live,
                   latest_version, current_version, grad, model_grad, updates,
                   hist, raises, qvars>>

\* step() in a call that updates (lines 178-212)
StepUpdate ==
    /\ batch_counter < MaxSteps
    /\ ReadyToStep(batch_counter, update_interval)
    /\ \E es \in {StepEvents(model_parameters, loss_scale, base_optimizer,
                              num_versions)} :
       \E st \in {RunEvents(es, StepState)} :
           /\ trace' = es
           /\ grad' = st.grad
           /\ updates' = st.updates
           /\ live' = st.live
           /\ latest_version' = st.latest_version
           /\ hist' = Append(hist, st.live["weight"])
           /\ buffered_state_dicts' = st.buffered_state_dicts
           /\ dicts' = st.dicts
           /\ opt_queue' = st.queue
           /\ files' = st.files
    /\ ret' = StepResult(base_optimizer)
    /\ batch_counter' = batch_counter + 1
    /\ last_call' = "step"
    /\ zg_run' = 0
    /\ zg_clears' = 0
    /\ UNCHANGED <<config, current_version, model_grad, raises, qvars>>

\* step() in a call in which base_optimizer.step() raises: the exception
\* leaves step() at line 199, after the gradients were prepared.  The
\* algorithm is taken to raise before it has written a parameter.
StepRaise ==
    /\ raises < MaxRaises
    /\ ReadyToStep(batch_counter, update_interval)
    /\ base_optimizer # "None"
    /\ \E es \in {UpToBaseStep(StepEvents(model_parameters, loss_scale,
                                           base_optimizer, num_versions))} :
       \E st \in {RunEvents(SubSeq(es, 1, Len(es) - 1), StepState)} :
           /\ trace' = es
           /\ grad' = st.grad
    /\ ret' = "raised"
    /\ raises' = raises + 1
    /\ last_call' = "step_raised"
    /\ zg_run' = 0
    /\ zg_clears' = 0
    /\ UNCHANGED <<config, opt_queue, dicts, files, buffered_state_dicts, live,
                   latest_version, current_version, batch_counter, model_grad,
                   updates, hist, qvars>>

step == StepAccumulate \/ StepUpdate

\* ---- set_params(*self.get_from_queue(index)) ----
SetParamsFromQueue(index) ==
    LET sd == SetParamsRebind(QueueStateDict(opt_queue, files, dicts, index, save_dir))
    IN  /\ live' = LoadStateDict(sd, live)
        /\ current_version' = QueueVersion(opt_queue, files, index, save_dir)
        \* in memory the state_dict rebound is the one in the deque; one
        \* loaded from a file is dropped on return
        /\ dicts' = IF save_dir # "None"
                    THEN dicts
                    ELSE [dicts EXCEPT ![opt_queue[index].sd] = sd]

\* ---- load_old_params() ----
load_old_params ==
    /\ IF Stashing(num_versions)
       THEN SetParamsFromQueue(1)
       ELSE UNCHANGED <<live, current_version, dicts>>
    /\ last_call' = "load_old_params"
    /\ zg_run' = 0
    /\ zg_clears' = 0
    /\ UNCHANGED <<config, opt_queue, files, buffered_state_dicts, latest_version,
                   batch_counter, grad, model_grad, updates, hist, ret, trace,
                   raises, qvars>>

\* ---- load_new_params() ----
load_new_params ==
    /\ IF Stashing(num_versions)
       THEN SetParamsFromQueue(Len(opt_queue))
       ELSE UNCHANGED <<live, current_version, dicts>>
    /\ last_call' = "load_new_params"
    /\ zg_run' = 0
    /\ zg_clears' = 0
    /\ UNCHANGED <<config, opt_queue, files, buffered_state_dicts, latest_version,
                   batch_counter, grad, model_grad, updates, hist, ret, trace,
                   raises, qvars>>

\* ---- zero_grad() ----
zero_grad ==
    /\ zg_run < MaxZeroGrads
    /\ LET clears == base_optimizer # "None"
                        /\ WindowStart(batch_counter, update_interval)
       IN  /\ grad' = IF clears THEN [g \in DOMAIN grad |-> GradZero] ELSE grad
           /\ zg_clears' = IF clears THEN zg_clears + 1 ELSE zg_clears
    /\ zg_run' = zg_run + 1
    /\ last_call' = "zero_grad"
    /\ UNCHANGED <<config, opt_queue, dicts, files, buffered_state_dicts, live,
                   latest_version, current_version, batch_counter, updates, hist,
                   ret, trace, raises, model_grad, qvars>>

\* ---- the training loop around the optimizer ----
\* a backward pass accumulates into p.grad of every parameter of the model:
\* these are the optimizer's parameters, but with fp16, where the optimizer
\* has master copies of them
backward ==
    /\ DOMAIN grad # {}
    /\ IF model_parameters # "None"
       THEN /\ \A g \in DOMAIN model_grad :
                    model_grad[g].num < MaxGrad * model_grad[g].den
            /\ model_grad' = [g \in DOMAIN model_grad |->
                                GradAccumulate(model_grad[g])]
            /\ grad' = grad
       ELSE /\ \A g \in DOMAIN grad : grad[g].num < MaxGrad * grad[g].den
            /\ grad' = [g \in DOMAIN grad |-> GradAccumulate(grad[g])]
            /\ model_grad' = model_grad
    /\ last_call' = "backward"
    /\ zg_run' = 0
    /\ zg_clears' = 0
    /\ UNCHANGED <<config, opt_queue, dicts, files, buffered_state_dicts, live,
                   latest_version, current_version, batch_counter, updates, hist,
                   ret, trace, raises, qvars>>

\* a forward pass in training mode moves the running statistics, and the
\* module may replace its mask
forward(key) ==
    /\ IsRunning(key) \/ IsMask(key)
    /\ live[key] < MaxStat
    /\ live' = [live EXCEPT ![key] = live[key] + 1]
    /\ last_call' = "forward"
    /\ zg_run' = 0
    /\ zg_clears' = 0
    /\ UNCHANGED <<config, opt_queue, dicts, files, buffered_state_dicts,
                   latest_version, current_version, batch_counter, grad,
                   model_grad, updates, hist, ret, trace, raises, qvars>>

-----------------------------------------------------------------------------
(***************************************************************************)
(* The specifications.                                                     *)
(***************************************************************************)
\* the optimizer alone; no queue is used
Init == QueueInit /\ OptInit

Next ==
    \/ StepAccumulate
    \/ StepUpdate
    \/ load_old_params
    \/ load_new_params
    \/ zero_grad
    \/ backward
    \/ \E key \in Keys : forward(key)

Spec == Init /\ [][Next]_vars

\* the optimizer with mixed precision, over modules whose running
\* statistics and masks stay as they are (or that have none)
MixedNext ==
    \/ StepAccumulate
    \/ StepUpdate
    \/ load_old_params
    \/ load_new_params
    \/ zero_grad
    \/ backward

MixedInit == QueueInit /\ MixedOptInit

MixedSpec == MixedInit /\ [][MixedNext]_vars

\* the optimizer, with or without mixed precision, around an update
\* algorithm that may raise
FailNext ==
    \/ StepAccumulate
    \/ StepUpdate
    \/ StepRaise
    \/ load_old_params
    \/ load_new_params
    \/ zero_grad
    \/ backward

FailInit == QueueInit /\ FailOptInit

FailSpec == FailInit /\ [][FailNext]_vars

\* the queue alone, beside an optimizer nobody calls
QInit == QueueInit /\ Construct(1, FALSE, "None", "optim", "None", 1)

QNext ==
    \/ \E t \in Payloads : AddCall(t)
    \/ AddAcquire
    \/ AddAppend
    \/ AddNotify
    \/ AddRelease
    \/ RemoveCall
    \/ RemoveAcquire
    \/ RemoveTest
    \/ RemoveWait
    \/ SpuriousWakeup
    \/ RemoveReacquire
    \/ RemovePopleft
    \/ RemoveRelease
    \/ RemoveReturn

QSpec == QInit /\ [][QNext]_vars

\* fair scheduling: a thread inside add() or remove() that can take a step
\* again and again (the lock is free again and again) takes one
QFairSpec == QSpec /\ SF_vars(ProducerStep) /\ SF_vars(ConsumerStep)

-----------------------------------------------------------------------------
(***************************************************************************)
(* Properties of the handoff queue.                                        *)
(***************************************************************************)
\* the payloads add() has appended so far: all that were passed to add()
\* but the one of a call that has not reached its append yet
Appended ==
    SubSeq(added, 1,
           Len(added) - (IF pc["producer"] \in {"acquire", "append"} THEN 1 ELSE 0))

\* the payload remove() has taken out of the deque and not returned yet
Held == IF pc["consumer"] \in {"release", "return"} THEN <<tensor>> ELSE <<>>

ConsumerInRemove == pc["consumer"] # "idle"

\* C1: FIFO.  In every reachable state of one producer and one consumer the
\* payloads returned by remove() are a prefix of the payloads passed to
\* add(), in the same order, and returned, held and queued payloads together
\* are exactly the payloads appended: none dropped, duplicated or reordered.
C1_Fifo ==
    /\ Len(removed) <= Len(added)
    /\ removed = SubSeq(added, 1, Len(removed))
    /\ removed \o Held \o queue = Appended

\* C1 witness: two different payloads went through the queue while a third
\* was waiting in it.
C1_Witness ==
    /\ Len(removed) = 2
    /\ removed[1] # removed[2]
    /\ Len(queue) = 1

\* C2: no lost wakeup.  Under fair scheduling a consumer inside remove()
\* returns whenever a payload is in the queue, whether it was appended
\* before the consumer's test, between the test and the wait, or while the
\* consumer was waiting.
C2_NoLostWakeup == (ConsumerInRemove /\ Len(queue) > 0) ~> (pc["consumer"] = "idle")

\* C2 witness: a consumer that had gone to wait returns a payload.
C2_Witness == woken /\ pc["consumer"] = "return" /\ cv_waiters = {}

\* C3: remove() blocks until a payload is available.  It never takes
\* anything out of an empty queue and never returns without a payload (also
\* after a wakeup that finds the queue empty: it waits again), what it takes
\* is the oldest payload then in the queue, and without an add() it never
\* returns.
C3_RemoveBlocks ==
    /\ [](pc["consumer"] # "raised")
    /\ [](pc["consumer"] = "popleft" => Len(queue) > 0)
    /\ [](Len(added) = 0 => Len(removed) = 0 /\ Held = <<>>)
    /\ [][Len(queue') < Len(queue) =>
            /\ pc["consumer"] = "popleft"
            /\ tensor' = Head(queue)
            /\ queue' = Tail(queue)]_vars
    /\ [][removed' # removed =>
            /\ pc["consumer"] = "return"
            /\ removed' = Append(removed, tensor)]_vars

\* C3 witness: remove() woke up, found the queue still empty and is about
\* to wait again.
C3_Witness == woken /\ pc["consumer"] = "wait" /\ Len(queue) = 0

\* C4: add() never blocks the producer.  Under fair scheduling every add()
\* call completes, whatever the consumer does; it appends exactly its one
\* payload, and its notify wakes exactly one waiting consumer when one is
\* blocked (nobody otherwise).
C4_AddNeverBlocks ==
    /\ (pc["producer"] # "idle") ~> (pc["producer"] = "idle")
    /\ [][Len(queue') > Len(queue) =>
            /\ pc["producer"] = "append"
            /\ queue' = Append(queue, added[Len(added)])]_vars
    /\ [][(pc["producer"] = "notify" /\ pc'["producer"] = "release") =>
            /\ Cardinality(cv_waiters \ cv_waiters') =
                    (IF cv_waiters = {} THEN 0 ELSE 1)
            /\ cv_waiters' \subseteq cv_waiters
            /\ \A th \in cv_waiters \ cv_waiters' : pc'[th] = "wakeup"]_vars
    /\ [][(pc["producer"] = "append" /\ pc'["producer"] # "append") =>
            Len(queue') = Len(queue) + 1]_vars

\* C4 witness: an add() has completed and has woken the consumer that was
\* blocked in remove().
C4_Witness ==
    /\ pc["producer"] = "idle"
    /\ pc["consumer"] = "wakeup"
    /\ Len(queue) = 1
    /\ Len(added) = 1

-----------------------------------------------------------------------------
(***************************************************************************)
(* Properties of the weight-stashing optimizer.                            *)
(***************************************************************************)
\* the version tag of the index-th snapshot of the ring, 1 being the oldest
Tag(index) == QueueVersion(opt_queue, files, index, save_dir)

\* the value the index-th snapshot of the ring holds for a key
SnapshotValue(index, key) ==
    Deref(QueueStateDict(opt_queue, files, dicts, index, save_dir)[key], live, key)

\* the keys that are neither running statistics nor masks
StandardKeys == {key \in Keys : ~IsRunning(key) /\ ~IsMask(key)}

Max(a, b) == IF a > b THEN a ELSE b

\* C5: ring size.  From construction on and after any sequence of step(),
\* zero_grad(), load_old_params() and load_new_params() calls the ring holds
\* exactly num_versions entries, in memory and on disk (where every entry
\* names a file that exists), and a push drops exactly the oldest entry.
C5_RingSize ==
    /\ [](Len(opt_queue) = num_versions)
    /\ [](\A i \in 1..Len(opt_queue) :
            IF save_dir # "None"
            THEN opt_queue[i].fname \in DOMAIN files
            ELSE opt_queue[i].sd \in DOMAIN dicts)
    /\ [][opt_queue' # opt_queue =>
            /\ Len(opt_queue') = Len(opt_queue)
            /\ SubSeq(opt_queue', 1, Len(opt_queue) - 1) = Tail(opt_queue)]_vars

\* C5 witness: a disk-backed ring of three after four rotations and a load.
C5_Witness ==
    /\ save_dir = "dir"
    /\ num_versions = 3
    /\ latest_version = 4
    /\ last_call = "load_old_params"
    /\ Len(opt_queue) = 3

\* C6 as stated: the tags of the ring, read newest to oldest, are
\* latest_version, latest_version - 1, ..., latest_version - num_versions + 1
\* after every sequence of step() calls, the empty one included.
C6_ContiguousTags ==
    \A i \in 1..Len(opt_queue) : Tag(i) = latest_version - (Len(opt_queue) - i)

\* C6 amended: with num_versions > 1 the tags, read newest to oldest, are
\* max(0, latest_version - k) for k = 0 .. num_versions - 1: contiguous and
\* descending from latest_version once num_versions - 1 updates were made,
\* the entries not yet replaced keeping the tag 0 of construction.  With
\* num_versions = 1 the ring is never rotated and its entry keeps tag 0.
C6_TagsAmended ==
    /\ Stashing(num_versions) =>
        \A i \in 1..Len(opt_queue) :
            Tag(i) = Max(0, latest_version - (Len(opt_queue) - i))
    /\ num_versions = 1 => Tag(1) = 0

\* C6 witness: a ring of three whose entries were all replaced.
C6_Witness ==
    /\ num_versions = 3
    /\ latest_version = 4
    /\ Tag(1) = 2 /\ Tag(2) = 3 /\ Tag(3) = 4

\* C7: cadence.  Counted from a window boundary the first
\* update_interval - 1 step() calls of a window return None, invoke no
\* update and leave latest_version, the live state and the ring alone; the
\* last call of the window makes the one update (base_optimizer.step() is
\* invoked once, when there is a base optimizer) and latest_version grows by
\* one; every step() call adds one to batch_counter.
C7_Cadence ==
    /\ [](latest_version = batch_counter \div update_interval)
    /\ [](updates = IF base_optimizer = "None" THEN 0 ELSE latest_version)
    /\ [][last_call' = "step" => batch_counter' = batch_counter + 1]_vars
    /\ [][batch_counter' # batch_counter =>
            /\ last_call' = "step"
            /\ IF batch_counter % update_interval < update_interval - 1
               THEN /\ ret' = "None"
                    /\ updates' = updates
                    /\ latest_version' = latest_version
                    /\ UNCHANGED <<live, opt_queue, dicts, files, grad>>
               ELSE /\ updates' = updates + (IF base_optimizer = "None" THEN 0 ELSE 1)
                    /\ latest_version' = latest_version + 1]_vars
    /\ [][(latest_version' # latest_version \/ updates' # updates) =>
            batch_counter' = batch_counter + 1]_vars

\* C7 witness: two windows of two calls each were completed with a base
\* optimizer: four step() calls, two updates.
C7_Witness ==
    /\ update_interval = 2
    /\ base_optimizer = "optim"
    /\ batch_counter = 4
    /\ latest_version = 2
    /\ updates = 2
    /\ last_call = "step"

\* C8 as stated: update_interval zero_grad() calls in a row, made at a
\* window boundary of an optimizer with parameters, clear the gradients
\* exactly once.
C8_ClearsOnceInARow ==
    (/\ base_optimizer # "None"
     /\ batch_counter % update_interval = 0
     /\ zg_run = update_interval) => zg_clears = 1

\* C8 amended: a zero_grad() call clears the gradients exactly when there
\* are parameters and batch_counter mod update_interval = 0, and changes
\* nothing otherwise.  So a call made after some step() of the window never
\* clears what the window has accumulated, and one call before each step()
\* clears once per window; but the calls of a run of zero_grad() calls with
\* no step() between them all do the same, each of them clearing at a
\* window boundary.
C8_ClearsAtWindowStart ==
    /\ [][zg_run' = zg_run + 1 =>
            /\ last_call' = "zero_grad"
            /\ IF base_optimizer # "None" /\ batch_counter % update_interval = 0
               THEN /\ \A g \in DOMAIN grad' : grad'[g] = GradZero
                    /\ zg_clears' = zg_clears + 1
               ELSE /\ grad' = grad
                    /\ zg_clears' = zg_clears
            /\ UNCHANGED <<live, opt_queue, dicts, files, batch_counter,
                           latest_version, current_version>>]_vars
    /\ [][last_call' = "zero_grad" => zg_run' = zg_run + 1]_vars
    /\ [](zg_clears =
            IF base_optimizer # "None" /\ batch_counter % update_interval = 0
            THEN zg_run ELSE 0)

\* C8 witness: in the middle of a window, with a gradient accumulated, a
\* zero_grad() call was made and the gradient is still there.
C8_Witness ==
    /\ base_optimizer = "optim"
    /\ update_interval = 2
    /\ batch_counter % update_interval = 1
    /\ last_call = "zero_grad"
    /\ zg_clears = 0
    /\ grad[1].num > 0

\* C9: weight-stashing consistency.  With num_versions > 1 every snapshot of
\* the ring holds, for the standard keys, the live values as they were right
\* after the update that made the version of its tag (the initial values
\* for tag 0), in memory and on disk; load_old_params() leaves the module
\* with the parameters of the oldest version of the ring and
\* load_new_params() with those of latest_version.
C9_StashConsistent ==
    Stashing(num_versions) =>
        /\ \A i \in 1..Len(opt_queue) : \A key \in StandardKeys :
                SnapshotValue(i, key) = hist[Tag(i) + 1]
        /\ \A i \in 1..Len(opt_queue) : Tag(1) <= Tag(i) /\ Tag(i) <= latest_version
        /\ last_call = "load_old_params" =>
                /\ \A key \in StandardKeys : live[key] = hist[Tag(1) + 1]
                /\ current_version = Tag(1)
        /\ last_call = "load_new_params" =>
                /\ \A key \in StandardKeys : live[key] = hist[latest_version + 1]
                /\ current_version = latest_version

\* C9 witness: an in-memory ring of three after four updates, the module
\* just loaded with the oldest version, which is not the latest.
C9_Witness ==
    /\ save_dir = "None"
    /\ num_versions = 3
    /\ latest_version = 4
    /\ last_call = "load_old_params"
    /\ live["weight"] = hist[3]
    /\ hist[3] # hist[5]

\* C10: with num_versions = 1 a load_old_params() or load_new_params() call
\* changes neither the live state nor current_version, latest_version,
\* batch_counter or the ring.
C10_LoadsNoOp ==
    [][(num_versions = 1 /\ last_call' \in {"load_old_params", "load_new_params"}) =>
            UNCHANGED <<live, current_version, latest_version, batch_counter,
                        opt_queue, dicts, files, buffered_state_dicts, grad>>]_vars

\* C10 witness: one version kept, the module updated since the snapshot was
\* taken, and a load just called: the module still has the updated weight.
C10_Witness ==
    /\ num_versions = 1
    /\ last_call = "load_old_params"
    /\ latest_version = 2
    /\ live["weight"] # SnapshotValue(1, "weight")
    /\ live["running_mean"] # SnapshotValue(1, "running_mean")

\* the live values a load_new_params() call made now would leave
LiveAfterLoadNew ==
    IF Stashing(num_versions)
    THEN LoadStateDict(
            SetParamsRebind(
                QueueStateDict(opt_queue, files, dicts, Len(opt_queue), save_dir)),
            live)
    ELSE live

\* C11: idempotence of reads.  In every state a load_new_params() call has
\* left, a second load_new_params() call leaves the same live module state;
\* and no load_new_params() call changes latest_version, batch_counter, the
\* order of the ring or the version tags of its entries.
C11_LoadNewIdempotent ==
    /\ [](last_call = "load_new_params" => LiveAfterLoadNew = live)
    /\ [][last_call' = "load_new_params" =>
            /\ UNCHANGED <<latest_version, batch_counter, opt_queue>>
            /\ \A i \in 1..Len(opt_queue) :
                    QueueVersion(opt_queue', files', i, save_dir) = Tag(i)]_vars

\* C11 witness: a disk-backed ring of two after two updates and a change of
\* the running statistics; load_new_params() has put the newest weights
\* into the module.
C11_Witness ==
    /\ last_call = "load_new_params"
    /\ save_dir = "dir"
    /\ num_versions = 2
    /\ latest_version = 2
    /\ live["weight"] = hist[3]
    /\ hist[3] # hist[1]
    /\ live["running_mean"] # SnapshotValue(2, "running_mean")

\* C12: a restore never touches the live running statistics and masks.
\* Every load_old_params() and load_new_params() call leaves the live values
\* of the keys containing "running_" or "mask" as they were, whatever the
\* snapshot restored holds for them.
C12_RestoreKeepsStatistics ==
    [][last_call' \in {"load_old_params", "load_new_params"} =>
            \A key \in Keys \ StandardKeys : live'[key] = live[key]]_vars

\* C12 witness: the oldest snapshot of a disk-backed ring holds another
\* running statistic and another mask than the module, and was just
\* restored.
C12_Witness ==
    /\ last_call = "load_old_params"
    /\ save_dir = "dir"
    /\ num_versions = 2
    /\ live["running_mean"] = 1
    /\ live["mask"] = 1
    /\ SnapshotValue(1, "running_mean") = 0
    /\ SnapshotValue(1, "mask") = 0

\* C13: configuration.  With macrobatch the number of versions kept, and
\* with it the size of the ring, is min(2, requested) and update_interval
\* is that number; without macrobatch the number of versions is the one
\* requested and update_interval is 1.
C13_Configuration ==
    LET requested == ctor_args.num_versions
    IN  IF ctor_args.macrobatch
        THEN /\ num_versions = (IF requested < 2 THEN requested ELSE 2)
             /\ Len(opt_queue) = num_versions
             /\ update_interval = num_versions
        ELSE /\ num_versions = requested
             /\ Len(opt_queue) = requested
             /\ update_interval = 1

\* C13 witness: three versions requested with macrobatch: a ring of two and
\* an update every second step() call.
C13_Witness ==
    /\ ctor_args.num_versions = 3
    /\ ctor_args.macrobatch
    /\ num_versions = 2
    /\ Len(opt_queue) = 2
    /\ update_interval = 2
    /\ batch_counter = 2
    /\ latest_version = 1

\* C14: the empty parameter set.  An optimizer constructed with no
\* parameters has no base optimizer, and through any sequence of calls
\* step() returns None, invokes no update algorithm, raises nothing and
\* leaves the module as it is, and zero_grad() changes nothing; step()
\* still counts its calls.
C14_EmptyPassThrough ==
    /\ [](base_optimizer = "None" =>
            /\ ret = "None"
            /\ updates = 0
            /\ ParamGroups(base_optimizer) = {}
            /\ DOMAIN grad = {}
            /\ \A key \in StandardKeys : live[key] = InitialLive[key])
    /\ [][(base_optimizer = "None" /\ last_call' = "step") =>
            /\ live' = live
            /\ ret' = "None"
            /\ batch_counter' = batch_counter + 1]_vars
    /\ [][(base_optimizer = "None" /\ last_call' = "zero_grad") =>
            UNCHANGED <<live, grad, opt_queue, dicts, files, buffered_state_dicts,
                        batch_counter, latest_version, current_version, updates,
                        ret>>]_vars

\* C14 witness: no parameters, macrobatch: through two windows of step()
\* calls, the last one of them on the update path, and a zero_grad() at
\* the window boundary after them, nothing was updated or returned.
C14_Witness ==
    /\ base_optimizer = "None"
    /\ update_interval = 2
    /\ batch_counter = 4
    /\ last_call = "zero_grad"
    /\ ret = "None"
    /\ updates = 0

\* C15 as stated: exclusive storage.  In every reachable state of an
\* in-memory ring the snapshots of the ring are different state_dicts, and
\* no entry of a snapshot is a tensor of the live module (or, through it, of
\* another snapshot).
C15_ExclusiveStorage ==
    save_dir = "None" =>
        /\ \A i, j \in 1..Len(opt_queue) :
                i # j => opt_queue[i].sd # opt_queue[j].sd
        /\ \A i \in 1..Len(opt_queue) : \A key \in Keys :
                ~dicts[opt_queue[i].sd][key].alias

\* how often the last step() call did e
Count(e) == Cardinality({i \in 1..Len(trace) : trace[i] = e})

\* when the last step() call did e (0 if it did not)
Pos(e) == IF Count(e) = 0 THEN 0 ELSE CHOOSE i \in 1..Len(trace) : trace[i] = e

\* C16: the hooks of mixed precision.  With model_parameters given, every
\* step() call that updates calls model_grads_to_master_grads once, before
\* base_optimizer.step(), and master_params_to_model_params once, after it
\* and before latest_version is incremented and the ring rotated: the
\* module and the newest snapshot then hold the weight just made, and the
\* master gradients are the model's, unscaled and averaged.  A step() call
\* that only counts calls neither hook.
C16_HookProtocol ==
    /\ [][(model_parameters # "None" /\ last_call' = "step"
                /\ latest_version' # latest_version) =>
            /\ Count("model_grads_to_master_grads")' = 1
            /\ Count("master_params_to_model_params")' = 1
            /\ Count("base_optimizer.step")' =
                    (IF base_optimizer # "None" THEN 1 ELSE 0)
            /\ Count("latest_version.incr")' = 1
            /\ Count("append_to_queue")' = (IF num_versions > 1 THEN 1 ELSE 0)
            /\ Pos("model_grads_to_master_grads")' = 1
            /\ base_optimizer # "None" =>
                    /\ Pos("model_grads_to_master_grads")' < Pos("base_optimizer.step")'
                    /\ Pos("base_optimizer.step")' < Pos("master_params_to_model_params")'
            /\ Pos("master_params_to_model_params")' < Pos("latest_version.incr")'
            /\ num_versions > 1 =>
                    Pos("master_params_to_model_params")' < Pos("append_to_queue")'
            /\ base_optimizer # "None" =>
                    /\ updates' = updates + 1
                    /\ live'["weight"] = updates'
                    /\ grad'[1] = GradDiv(GradDiv(model_grad[1], loss_scale),
                                          update_interval)
                    /\ num_versions > 1 =>
                            Deref(QueueStateDict(opt_queue', files', dicts',
                                                 Len(opt_queue'), save_dir)["weight"],
                                  live', "weight") = updates']_vars
    /\ [][(last_call' = "step" /\ batch_counter' # batch_counter
                /\ latest_version' = latest_version) =>
            /\ trace' = <<>>
            /\ UNCHANGED <<grad, model_grad, live>>]_vars

\* C16 witness: mixed precision with a loss scale of 2 and an update every
\* second call: the second update has just been made, out of a gradient of
\* the model of 2, through both hooks.
C16_Witness ==
    /\ model_parameters = "fp16"
    /\ base_optimizer = "optim"
    /\ loss_scale = 2
    /\ update_interval = 2
    /\ latest_version = 2
    /\ last_call = "step"
    /\ trace = <<"model_grads_to_master_grads", "loss_scale", "div_",
                 "base_optimizer.step", "master_params_to_model_params",
                 "latest_version.incr", "append_to_queue">>
    /\ model_grad[1] = [num |-> 2, den |-> 1]
    /\ grad[1] = [num |-> 1, den |-> 2]
    /\ live["weight"] = 2

\* C17 as stated: gradient averaging.  A step() call that updates leaves
\* the gradient of every parameter of every parameter group of the base
\* optimizer divided by update_interval, once; a step() call that only
\* counts leaves every gradient as it is.
C17_AveragesAllGroups ==
    /\ [][(last_call' = "step" /\ latest_version' # latest_version) =>
            \A g \in ParamGroups(base_optimizer) :
                grad'[g] = GradDiv(grad[g], update_interval)]_vars
    /\ [][(last_call' = "step" /\ latest_version' = latest_version) =>
            grad' = grad]_vars

\* C18 as stated: current_version names the version in the module.  After
\* every completed step(), load_old_params() or load_new_params() call the
\* live standard parameters are those update number current_version has
\* made, and 0 <= current_version <= latest_version.
C18_CurrentVersionMaterialized ==
    last_call \in {"step", "load_old_params", "load_new_params"} =>
        /\ \A key \in StandardKeys : live[key] = hist[current_version + 1]
        /\ 0 <= current_version
        /\ current_version <= latest_version

\* the file keys of the ring, oldest first
RingKeys == [i \in 1..Len(opt_queue) |-> opt_queue[i].fname]

\* C19 as stated: the keys of a disk-backed ring.  From construction on the
\* num_versions entries of the ring name num_versions different files.
C19_DistinctKeys ==
    save_dir # "None" =>
        \A i, j \in 1..Len(opt_queue) : i # j => RingKeys[i] # RingKeys[j]

\* C19 amended: the entry of the ring that holds version v names the file
\* of key v mod num_versions.  Construction writes key 0 num_versions times
\* with the same content, so all entries name file 0 at first; the keys are
\* pairwise different once num_versions - 1 pushes were made.  Each push
\* of step() writes the key latest_version mod num_versions and no other
\* file; this is never the key of an entry that stays in the ring, and it
\* is the key of the entry evicted once num_versions - 1 pushes were made.
C19_KeysAmended ==
    /\ [](save_dir # "None" =>
            /\ \A i \in 1..Len(opt_queue) :
                    RingKeys[i] =
                        Max(0, latest_version - (num_versions - i)) % num_versions
            /\ DOMAIN files = {RingKeys[i] : i \in 1..Len(opt_queue)}
            /\ latest_version >= num_versions - 1 =>
                    \A i, j \in 1..Len(opt_queue) :
                        i # j => RingKeys[i] # RingKeys[j]
            /\ (latest_version < num_versions - 1 /\ num_versions > 1) =>
                    RingKeys[1] = RingKeys[2])
    /\ [][(save_dir # "None" /\ opt_queue' # opt_queue) =>
            LET key == RingKeys'[Len(opt_queue')]
            IN  /\ last_call' = "step"
                /\ key = latest_version' % num_versions
                /\ key \in DOMAIN files'
                /\ files'[key].version = latest_version'
                /\ \A k \in DOMAIN files : k # key => files'[k] = files[k]
                /\ \A i \in 2..Len(opt_queue) : RingKeys[i] # key
                /\ latest_version >= num_versions - 1 => key = RingKeys[1]]_vars
    /\ [][(save_dir # "None" /\ files' # files) => opt_queue' # opt_queue]_vars

\* C19 witness: a disk-backed ring of three after three pushes: the third
\* one has written key 0 again, the key of the entry it evicted.
C19_Witness ==
    /\ save_dir = "dir"
    /\ num_versions = 3
    /\ latest_version = 3
    /\ last_call = "step"
    /\ RingKeys = <<1, 2, 0>>
    /\ files[0].version = 3

\* C20: a failure of the update algorithm.  When base_optimizer.step()
\* raises, step() ends with that exception, after the gradients were
\* prepared and before anything else: batch_counter, latest_version,
\* current_version, the ring and its snapshots are as before the call, and
\* the optimizer is still at the last call of its window.  A step() call
\* made next takes the update path and prepares the gradients again: it
\* divides the gradients the failed call has divided already (or, with
\* fp16, a new copy of the model's gradients) by update_interval.
C20_FailureKeepsBookkeeping ==
    /\ [][last_call' = "step_raised" =>
            /\ ret' = "raised"
            /\ ReadyToStep(batch_counter, update_interval)
            /\ UNCHANGED <<batch_counter, latest_version, current_version,
                           opt_queue, dicts, files, buffered_state_dicts, live,
                           updates>>
            /\ Count("base_optimizer.step")' = 1
            /\ Pos("base_optimizer.step")' = Len(trace')
            /\ grad'[1] = GradDiv(IF model_parameters # "None"
                                    THEN model_grad[1] ELSE grad[1],
                                  update_interval)]_vars
    /\ [](last_call = "step_raised" =>
            ReadyToStep(batch_counter, update_interval))
    /\ [][(last_call = "step_raised" /\ last_call' = "step") =>
            /\ latest_version' = latest_version + 1
            /\ batch_counter' = batch_counter + 1
            /\ grad'[1] = GradDiv(IF model_parameters # "None"
                                    THEN model_grad[1] ELSE grad[1],
                                  update_interval)]_vars

\* C20 witness: no mixed precision, an update every second call, a
\* gradient of 1 accumulated: the update algorithm raised and step() was
\* called again, which has left a gradient of 1/4 and made version 1.
C20_Witness ==
    /\ model_parameters = "None"
    /\ update_interval = 2
    /\ raises = 1
    /\ last_call = "step"
    /\ batch_counter = 2
    /\ latest_version = 1
    /\ grad[1] = [num |-> 1, den |-> 4]
    /\ grad[2] = [num |-> 1, den |-> 1]

=============================================================================
